---------------------------- MODULE Spec2Model ----------------------------
(***************************************************************************)
(* php-bcrypt-converter: PhpBcryptConverter (src/src/index.ts).            *)
(*                                                                         *)
(* A JavaScript string is a sequence of one-character strings.  A          *)
(* JavaScript value handed to the converter is a record [type, str]; a     *)
(* number-or-undefined is a record [kind, v]; an options field is a        *)
(* record [kind, v] whose kind is "absent" when the object has no such     *)
(* key, "undefined" when the key is there with the value undefined.        *)
(***************************************************************************)
EXTENDS Integers, Sequences, FiniteSets, TLC

\* How far the length of a generated body strays from the 53 of the grammar.
MaxLenDelta == 1

\* ------------------------------------------------------------------------
\* Characters and character classes of the two regular expressions
\* ------------------------------------------------------------------------

DigitSeq == <<"0","1","2","3","4","5","6","7","8","9">>

Digits == {DigitSeq[i] : i \in 1..10}

Lower == {"a","b","c","d","e","f","g","h","i","j","k","l","m","n","o","p","q","r","s","t","u","v","w","x","y","z"}

Upper == {"A","B","C","D","E","F","G","H","I","J","K","L","M","N","O","P","Q","R","S","T","U","V","W","X","Y","Z"}

\* [A-Za-z0-9./]
BodyAlphabet == Lower \cup Upper \cup Digits \cup {".", "/"}

\* [aby]
VersionLetters == {"a", "b", "y"}

DigitVal(c) == (CHOOSE i \in 1..10 : DigitSeq[i] = c) - 1

\* ------------------------------------------------------------------------
\* JavaScript values
\* ------------------------------------------------------------------------

Str(s) == [type |-> "string", str |-> s]

Null == [type |-> "null", str |-> <<>>]

UndefinedValue == [type |-> "undefined", str |-> <<>>]

\* a number passed where a string is declared (the value itself is never read)
NumberValue == [type |-> "number", str |-> <<>>]

Num(n) == [kind |-> "number", v |-> n]

NaN == [kind |-> "NaN", v |-> 0]

NoNumber == [kind |-> "undefined", v |-> 0]

\* !hash : null, undefined and the empty string are falsy; a number passed
\* in is taken to be non-zero.
Falsy(hash) ==
  \/ hash.type \in {"null", "undefined"}
  \/ hash.type = "string" /\ hash.str = <<>>

\* String(value), as a template literal, RegExp.test and parseInt coerce it
ToStringValue(value) ==
  CASE value.type = "string" -> value.str
    [] value.type = "null" -> <<"n","u","l","l">>
    [] value.type = "undefined" -> <<"u","n","d","e","f","i","n","e","d">>
    [] OTHER -> <<"4","2">>

\* ------------------------------------------------------------------------
\* Regular expressions: a pattern is a sequence of items [cls, n], "n
\* characters of class cls"; both patterns are anchored at the start.
\* ------------------------------------------------------------------------

Item(cls, n) == [cls |-> cls, n |-> n]

\* /^\$2[aby]\$([0-9]{2})\$/
roundsPattern ==
  << Item({"$"}, 1), Item({"2"}, 1), Item(VersionLetters, 1), Item({"$"}, 1),
     Item(Digits, 2), Item({"$"}, 1) >>

\* /^\$2[aby]\$[0-9]{2}\$[A-Za-z0-9./]{53}$/
phpBcryptPattern ==
  << Item({"$"}, 1), Item({"2"}, 1), Item(VersionLetters, 1), Item({"$"}, 1),
     Item(Digits, 2), Item({"$"}, 1), Item(BodyAlphabet, 53) >>

\* The position after the match of items k.. of pat at position pos of s,
\* or 0 when they do not match there.
RECURSIVE MatchFrom(_, _, _, _)
MatchFrom(s, pat, k, pos) ==
  IF k > Len(pat) THEN pos
  ELSE LET last == pos + pat[k].n - 1
       IN IF last <= Len(s) /\ \A i \in pos..last : s[i] \in pat[k].cls
          THEN MatchFrom(s, pat, k + 1, last + 1)
          ELSE 0

\* pattern.test(s) for a pattern ending in $ (no m flag: the end of input only)
TestAnchored(s, pat) == MatchFrom(s, pat, 1, 1) = Len(s) + 1

\* s.match(pattern) for a pattern anchored at the start only: matched or not
MatchesPrefix(s, pat) == MatchFrom(s, pat, 1, 1) # 0

\* ------------------------------------------------------------------------
\* parseInt(text, 10), Number.prototype.toString, padStart(2, '0'), split
\* ------------------------------------------------------------------------

WhiteSpace == {" ", "\n", "\t"}

RECURSIVE SkipWhile(_, _)
SkipWhile(s, cls) ==
  IF s # <<>> /\ Head(s) \in cls THEN SkipWhile(Tail(s), cls) ELSE s

RECURSIVE TakeWhile(_, _)
TakeWhile(s, cls) ==
  IF s # <<>> /\ Head(s) \in cls THEN <<Head(s)>> \o TakeWhile(Tail(s), cls) ELSE <<>>

RECURSIVE DecimalValue(_)
DecimalValue(ds) ==
  IF ds = <<>> THEN 0
  ELSE 10 * DecimalValue(SubSeq(ds, 1, Len(ds) - 1)) + DigitVal(ds[Len(ds)])

\* parseInt(value, 10): leading white space skipped, an optional sign, then
\* the longest run of decimal digits; NaN when there is none.
parseInt(value) ==
  LET s == SkipWhile(ToStringValue(value), WhiteSpace)
      neg == s # <<>> /\ Head(s) = "-"
      t == IF s # <<>> /\ Head(s) \in {"-", "+"} THEN Tail(s) ELSE s
      ds == TakeWhile(t, Digits)
  IN IF ds = <<>> THEN NaN
     ELSE Num(IF neg THEN 0 - DecimalValue(ds) ELSE DecimalValue(ds))

RECURSIVE NatToString(_)
NatToString(n) ==
  IF n < 10 THEN <<DigitSeq[n + 1]>>
  ELSE NatToString(n \div 10) \o <<DigitSeq[(n % 10) + 1]>>

\* rounds.toString()
toString(num) ==
  IF num.kind = "NaN" THEN <<"N","a","N">>
  ELSE IF num.v < 0 THEN <<"-">> \o NatToString(0 - num.v)
  ELSE NatToString(num.v)

\* the rounds written without padding
padStart_None(s) == s

\* s.padStart(2, '0')
padStart(s) ==
  IF Len(s) >= 2 THEN s
  ELSE [i \in 1..(2 - Len(s)) |-> "0"] \o s

\* s.split('$'): the pieces between the delimiters
RECURSIVE split(_)
split(s) ==
  IF \A i \in 1..Len(s) : s[i] # "$" THEN <<s>>
  ELSE LET p == CHOOSE i \in 1..Len(s) : s[i] = "$" /\ \A j \in 1..(i - 1) : s[j] # "$"
       IN <<SubSeq(s, 1, p - 1)>> \o split(SubSeq(s, p + 1, Len(s)))

\* element i of a destructured array: undefined past its end
Element(parts, i) == IF i <= Len(parts) THEN Str(parts[i]) ELSE UndefinedValue


\* ------------------------------------------------------------------------
\* The converter
\* ------------------------------------------------------------------------

VARIABLES
  defaultOptions,  \* the instance's private defaultOptions
  op,              \* the method called last: "none" before the first call
  phpHash,         \* the value passed as the hash
  options,         \* the options passed to convert
  result,          \* how the last call ended: a return or a throw
  fed,             \* the last call converted the hash of the result before it
  prior,           \* that call: its input and its result
  first            \* the first call made on the instance, with its result

vars == <<defaultOptions, op, phpHash, options, result, fed, prior, first>>

\* defaultOptions with the rounds of the package's second test suite
DefaultOptions_Twelve ==
  [rounds |-> [kind |-> "number", v |-> 12], strict |-> [kind |-> "boolean", v |-> TRUE]]

\* private defaultOptions = { rounds: 10, strict: true }
DefaultOptions ==
  [rounds |-> [kind |-> "number", v |-> 10], strict |-> [kind |-> "boolean", v |-> TRUE]]

\* How a call ends.  A field a given ending does not have holds a filler.
NoResult ==
  [kind |-> "none", hash |-> <<>>, rounds |-> NoNumber, success |-> FALSE,
   hasError |-> FALSE, error |-> "", name |-> "", bool |-> FALSE]

\* no call before
NoPrior == [input |-> UndefinedValue, result |-> NoResult]

\* throw new <name>(message)
Throw(name, message) ==
  [NoResult EXCEPT !.kind = "throw", !.name = name, !.error = message]

ReturnBoolean(b) == [NoResult EXCEPT !.kind = "return", !.bool = b]

ReturnNumber(n) == [NoResult EXCEPT !.kind = "return", !.rounds = n]

\* a failure outcome that leaves the error out
failureResult_NoError(opts, message) ==
  [NoResult EXCEPT !.kind = "return", !.hash = <<>>, !.rounds = opts.rounds,
                   !.success = FALSE]

\* return { hash: '', rounds: opts.rounds, success: false, error: message }
failureResult(opts, message) ==
  [NoResult EXCEPT !.kind = "return", !.hash = <<>>, !.rounds = opts.rounds,
                   !.success = FALSE, !.hasError = TRUE, !.error = message]

\* return { hash: jsHash, rounds, success: true }
successResult(jsHash, rounds) ==
  [NoResult EXCEPT !.kind = "return", !.hash = jsHash, !.rounds = rounds,
                   !.success = TRUE]

\* a condition on an options field: only the boolean true is truthy here
Truthy(field) == field.kind = "boolean" /\ field.v

\* { ...this.defaultOptions, ...options }: every own key of options, the
\* ones holding undefined included, replaces the default's.
mergeOptions(opts) ==
  [rounds |-> IF opts.given /\ opts.rounds.kind # "absent"
              THEN opts.rounds ELSE defaultOptions.rounds,
   strict |-> IF opts.given /\ opts.strict.kind # "absent"
              THEN opts.strict ELSE defaultOptions.strict]

\* extractRounds(hash): hash.match of a value that is no string throws a
\* TypeError (null and undefined have no properties, a number no match).
extractRounds(hash) ==
  IF hash.type # "string" THEN Throw("TypeError", "hash.match")
  ELSE IF ~MatchesPrefix(hash.str, roundsPattern) THEN ReturnNumber(defaultOptions.rounds)
  ELSE LET rounds == parseInt(Str(SubSeq(hash.str, 5, 6)))
       IN IF rounds.kind = "NaN" THEN ReturnNumber(defaultOptions.rounds)
          ELSE ReturnNumber(rounds)

\* isValidPhpHash with the upper limit of the range off by one
isValidPhpHash_OffByOne(hash) ==
  IF Falsy(hash) \/ hash.type # "string" THEN FALSE
  ELSE IF ~TestAnchored(hash.str, phpBcryptPattern) THEN FALSE
  ELSE LET rounds == extractRounds(hash).rounds
       IN ~(rounds.v < 4 \/ rounds.v >= 31)

\* isValidPhpHash(hash)
isValidPhpHash(hash) ==
  IF Falsy(hash) \/ hash.type # "string" THEN FALSE
  ELSE IF ~TestAnchored(hash.str, phpBcryptPattern) THEN FALSE
  ELSE LET rounds == extractRounds(hash).rounds
       IN ~(rounds.v < 4 \/ rounds.v > 31)

\* isValidRounds with the lower limit of the range off by one
isValidRounds_OffByOne(rounds) == rounds.kind # "NaN" /\ rounds.v > 4 /\ rounds.v <= 31

\* isValidRounds(rounds)
isValidRounds(rounds) == rounds.kind # "NaN" /\ rounds.v >= 4 /\ rounds.v <= 31

\* the version tag left as it came
jsVersion_Keep(version) == version

\* the version tag rewritten both ways
jsVersion_Swap(version) ==
  IF version = <<"2", "y">> THEN <<"2", "b">>
  ELSE IF version = <<"2", "b">> THEN <<"2", "y">> ELSE version

\* version === '2y' ? '2b' : version
jsVersion(version) ==
  IF version = <<"2", "y">> THEN <<"2", "b">> ELSE version

\* `$${jsVersion}$${rounds.toString().padStart(2, '0')}$${hashPart}`
jsHashOf(version, rounds, hashPart) ==
  <<"$">> \o version \o <<"$">> \o padStart(toString(rounds)) \o <<"$">> \o hashPart

\* a failed check reported by value whatever the mode
rejected_NeverThrows(opts, message) == failureResult(opts, message)

\* what convert does when a check fails: throw when strict, else return
rejected(opts, message) ==
  IF Truthy(opts.strict) THEN Throw("InvalidHashError", message)
  ELSE failureResult(opts, message)

\* the try block reporting the rounds of the options, when given, on success
tryBlock_OptionRounds(hash, opts) ==
  IF ~isValidPhpHash(hash) THEN rejected(opts, "Invalid PHP bcrypt hash format")
  ELSE LET parts == split(hash.str)
           version == Element(parts, 2)
           roundsPart == Element(parts, 3)
           hashPart == Element(parts, 4)
           rounds == parseInt(roundsPart)
       IN IF ~isValidRounds(rounds) THEN rejected(opts, "Invalid rounds value in hash")
          ELSE successResult(jsHashOf(jsVersion(ToStringValue(version)), rounds,
                                      ToStringValue(hashPart)),
                             IF opts.rounds.kind = "number" THEN opts.rounds ELSE rounds)

\* the try block of convert
tryBlock(hash, opts) ==
  IF ~isValidPhpHash(hash) THEN rejected(opts, "Invalid PHP bcrypt hash format")
  ELSE LET parts == split(hash.str)
           version == Element(parts, 2)
           roundsPart == Element(parts, 3)
           hashPart == Element(parts, 4)
           rounds == parseInt(roundsPart)
       IN IF ~isValidRounds(rounds) THEN rejected(opts, "Invalid rounds value in hash")
          ELSE successResult(jsHashOf(jsVersion(ToStringValue(version)), rounds,
                                      ToStringValue(hashPart)), rounds)

\* the catch block of convert, given how the try block ended
catchBlock(ended, opts) ==
  IF ended.kind # "throw" THEN ended
  ELSE IF Truthy(opts.strict)
       THEN IF ended.name = "InvalidHashError" THEN ended
            ELSE Throw("InvalidHashError", ended.error)
       ELSE failureResult(opts, ended.error)

\* convert(phpHash, options)
convert(hash, opts) ==
  LET merged == mergeOptions(opts)
  IN catchBlock(tryBlock(hash, merged), merged)

\* isValidHash(hash)
isValidHash(hash) == ReturnBoolean(isValidPhpHash(hash))

\* getRounds(hash)
getRounds(hash) == extractRounds(hash)


\* ------------------------------------------------------------------------
\* The inputs the calls are made with
\* ------------------------------------------------------------------------

\* the body of the hashes the test suites use
TestBody ==
  <<"a","b","c","d","e","f","g","h","i","j","k","l","m","n","o","p","q","r","s","t","u","v",".",
    "w","x","y","z","A","B","C","D","E","F","G","H","I","J","K","L","M","N","O","P","Q","R","S",
    "T","U","V","W","X","Y","Z">>

\* a body with the digits, the dot and the slash of the alphabet
MixedBody ==
  <<".","/","0","1","2","3","4","5","6","7","8","9","A","B","C","D","E","F","G","H","I","J","K",
    "L","M","N","O","P","Q","R","S","T","U","V","W","X","Y","Z","a","b","c","d","e","f","g","h",
    "i","j","k","l","m","n","o">>

Bodies ==
  {TestBody, MixedBody}
    \cup {SubSeq(TestBody, 1, Len(TestBody) - k) : k \in 1..MaxLenDelta}
    \cup {TestBody \o [i \in 1..k |-> "/"] : k \in 1..MaxLenDelta}
    \cup {[TestBody EXCEPT ![23] = "!"], TestBody \o <<"\n">>}

VersionChoices == {"a", "b", "y", "c"}

FirstRoundsChars == {"0", "1", "2", "3", "9", "A"}

SecondRoundsChars == Digits \cup {"B"}

HashText(version, d1, d2, body) ==
  <<"$", "2", version, "$", d1, d2, "$">> \o body

OtherTexts ==
  { <<>>,
    <<"i","n","v","a","l","i","d">>,
    <<"$","2","y","$","i","n","v","a","l","i","d">>,
    <<"$","2","y","$","1","0","$","t","o","o","s","h","o","r","t">>,
    <<"$","2","y","$","1","2","$","i","n","v","a","l","i","d">>,
    <<"$","2","y","$","1","0","$">>,
    <<" ">> \o HashText("y", "1", "0", TestBody),
    <<"$","2","y","$"," ","8","$">> \o TestBody,
    <<"$","2","y","$","-","8","$">> \o TestBody,
    <<"$","3","y","$","1","0","$">> \o TestBody }

HashInputs ==
  {Str(HashText(v, d1, d2, b)) :
     v \in VersionChoices, d1 \in FirstRoundsChars, d2 \in SecondRoundsChars, b \in Bodies}
    \cup {Str(t) : t \in OtherTexts}
    \cup {Null, UndefinedValue, NumberValue}

Absent == [kind |-> "absent", v |-> 0]

RoundsChoices ==
  {Absent, [kind |-> "undefined", v |-> 0], [kind |-> "number", v |-> 12],
   [kind |-> "number", v |-> 31]}

StrictChoices ==
  {[kind |-> "absent", v |-> FALSE], [kind |-> "undefined", v |-> FALSE],
   [kind |-> "boolean", v |-> TRUE], [kind |-> "boolean", v |-> FALSE]}

\* convert(hash) with no second argument
NoOptions == [given |-> FALSE, rounds |-> Absent, strict |-> [kind |-> "absent", v |-> FALSE]]

OptionsInputs ==
  {NoOptions} \cup [given : {TRUE}, rounds : RoundsChoices, strict : StrictChoices]

\* no call made yet
NoCall == [op |-> "none", input |-> UndefinedValue, options |-> NoOptions, result |-> NoResult]

\* ------------------------------------------------------------------------
\* The calls
\* ------------------------------------------------------------------------

Init ==
  /\ defaultOptions = DefaultOptions
  /\ op = "none"
  /\ phpHash \in HashInputs
  /\ options = NoOptions
  /\ result = NoResult
  /\ fed = FALSE
  /\ prior = NoPrior
  /\ first = NoCall

\* converter.convert(phpHash, o)
Convert(o) ==
  /\ op' = "convert"
  /\ options' = o
  /\ result' = convert(phpHash, o)
  /\ fed' = FALSE
  /\ prior' = NoPrior
  /\ UNCHANGED <<defaultOptions, phpHash, first>>

\* converter.convert(r.hash, o), r the successful result of the convert before
Reconvert(o) ==
  /\ op = "convert"
  /\ result.kind = "return"
  /\ result.success
  /\ op' = "convert"
  /\ phpHash' = Str(result.hash)
  /\ options' = o
  /\ result' = convert(Str(result.hash), o)
  /\ fed' = TRUE
  /\ prior' = [input |-> phpHash, result |-> result]
  /\ UNCHANGED <<defaultOptions, first>>

\* converter.isValidHash(phpHash)
IsValidHash ==
  /\ op' = "isValidHash"
  /\ result' = isValidHash(phpHash)
  /\ options' = NoOptions
  /\ fed' = FALSE
  /\ prior' = NoPrior
  /\ UNCHANGED <<defaultOptions, phpHash, first>>

\* converter.getRounds(phpHash)
GetRounds ==
  /\ op' = "getRounds"
  /\ result' = getRounds(phpHash)
  /\ options' = NoOptions
  /\ fed' = FALSE
  /\ prior' = NoPrior
  /\ UNCHANGED <<defaultOptions, phpHash, first>>

Next ==
  \/ \E o \in OptionsInputs : Convert(o)
  \/ \E o \in OptionsInputs : Reconvert(o)
  \/ IsValidHash
  \/ GetRounds

Spec == Init /\ [][Next]_vars

\* ------------------------------------------------------------------------
\* One instance called again and again, each call with arguments of its own
\* ------------------------------------------------------------------------

CallInputs ==
  { Str(HashText("y", "1", "0", TestBody)),
    Str(HashText("b", "0", "8", MixedBody)),
    Str(HashText("y", "0", "3", TestBody)),
    Str(<<"i","n","v","a","l","i","d">>),
    Str(<<>>),
    Null }

InitCalls ==
  /\ defaultOptions = DefaultOptions
  /\ op = "none"
  /\ phpHash = UndefinedValue
  /\ options = NoOptions
  /\ result = NoResult
  /\ fed = FALSE
  /\ prior = NoPrior
  /\ first = NoCall

\* the first call of the instance is kept, the later ones leave it
Recorded(method, h, o, r) ==
  IF first.op = "none" THEN [op |-> method, input |-> h, options |-> o, result |-> r]
  ELSE first

\* a convert that keeps the merged options as the instance's defaults
CallConvert_SavesOptions(h, o) ==
  /\ op' = "convert"
  /\ phpHash' = h
  /\ options' = o
  /\ result' = convert(h, o)
  /\ defaultOptions' = mergeOptions(o)
  /\ first' = Recorded("convert", h, o, convert(h, o))
  /\ fed' = FALSE
  /\ prior' = NoPrior

\* converter.convert(h, o)
CallConvert(h, o) ==
  /\ op' = "convert"
  /\ phpHash' = h
  /\ options' = o
  /\ result' = convert(h, o)
  /\ first' = Recorded("convert", h, o, convert(h, o))
  /\ fed' = FALSE
  /\ prior' = NoPrior
  /\ UNCHANGED defaultOptions

\* converter.isValidHash(h)
CallIsValidHash(h) ==
  /\ op' = "isValidHash"
  /\ phpHash' = h
  /\ options' = NoOptions
  /\ result' = isValidHash(h)
  /\ first' = Recorded("isValidHash", h, NoOptions, isValidHash(h))
  /\ fed' = FALSE
  /\ prior' = NoPrior
  /\ UNCHANGED defaultOptions

\* converter.getRounds(h)
CallGetRounds(h) ==
  /\ op' = "getRounds"
  /\ phpHash' = h
  /\ options' = NoOptions
  /\ result' = getRounds(h)
  /\ first' = Recorded("getRounds", h, NoOptions, getRounds(h))
  /\ fed' = FALSE
  /\ prior' = NoPrior
  /\ UNCHANGED defaultOptions

NextCalls ==
  \/ \E h \in CallInputs, o \in OptionsInputs : CallConvert(h, o)
  \/ \E h \in CallInputs : CallIsValidHash(h)
  \/ \E h \in CallInputs : CallGetRounds(h)

SpecCalls == InitCalls /\ [][NextCalls]_vars

\* ------------------------------------------------------------------------
\* Properties
\* ------------------------------------------------------------------------

\* '$' + 2a|2b|2y + '$' + two decimal digits + '$' at the start of s
HasRoundsField(s) ==
  /\ Len(s) >= 7
  /\ s[1] = "$" /\ s[4] = "$" /\ s[7] = "$"
  /\ SubSeq(s, 2, 3) \in {<<"2", "a">>, <<"2", "b">>, <<"2", "y">>}
  /\ s[5] \in Digits /\ s[6] \in Digits

\* the two digits of the rounds field read in base 10
FieldValue(s) == 10 * DigitVal(s[5]) + DigitVal(s[6])

\* the Hash Tag grammar with the rounds in 4..31, position by position
WellFormedText(s) ==
  /\ Len(s) = 60
  /\ HasRoundsField(s)
  /\ FieldValue(s) \in 4..31
  /\ \A i \in 8..60 : s[i] \in BodyAlphabet

WellFormed(hash) == hash.type = "string" /\ WellFormedText(hash.str)

\* the caller asked for strict mode, or left the choice to the default
StrictAsked(o) ==
  \/ ~o.given
  \/ o.strict.kind = "absent"
  \/ o.strict = [kind |-> "boolean", v |-> TRUE]

\* the caller passed strict: false
NonStrictAsked(o) == o.given /\ o.strict = [kind |-> "boolean", v |-> FALSE]

\* C1: isValidHash(h) returns true exactly when h is a string of the form
\* $2[aby]$DD$ + 53 characters of [A-Za-z0-9./] with DD in 4..31, and false
\* for every other input, never raising.
C1_IsValidHashIffWellFormed ==
  op = "isValidHash" =>
    /\ result.kind = "return"
    /\ result.bool = WellFormed(phpHash)

C1_Witness ==
  /\ op = "isValidHash"
  /\ result.kind = "return" /\ result.bool
  /\ SubSeq(phpHash.str, 5, 6) = <<"3", "1">>

\* C2: on a valid hash, whatever the options, convert returns success with
\* the input hash in which the version 2y is replaced by 2b and nothing else
\* changes; a 2a or 2b hash comes back as it is.
C2_ConvertRewritesOnlyVersion ==
  (op = "convert" /\ WellFormed(phpHash)) =>
    /\ result.kind = "return"
    /\ result.success
    /\ result.hash = [phpHash.str EXCEPT ![3] = IF @ = "y" THEN "b" ELSE @]

C2_Witness ==
  /\ op = "convert" /\ ~fed
  /\ WellFormed(phpHash) /\ phpHash.str[3] = "y"
  /\ result.kind = "return" /\ result.success
  /\ result.hash[3] = "b"

\* C3: in strict mode an input that fails validation makes convert raise an
\* InvalidHashError with the message 'Invalid PHP bcrypt hash format', and no
\* error of another kind ever leaves convert.
C3_StrictRaisesInvalidHashError ==
  op = "convert" =>
    /\ (StrictAsked(options) /\ ~WellFormed(phpHash)) =>
         /\ result.kind = "throw"
         /\ result.name = "InvalidHashError"
         /\ result.error = "Invalid PHP bcrypt hash format"
    /\ result.kind = "throw" => result.name = "InvalidHashError"

C3_Witness ==
  /\ op = "convert"
  /\ options.given /\ options.strict = [kind |-> "boolean", v |-> TRUE]
  /\ phpHash.type = "string" /\ Len(phpHash.str) = 60
  /\ SubSeq(phpHash.str, 5, 6) = <<"3", "2">>
  /\ result.kind = "throw"

\* the rounds a failure outcome is to report: the rounds the caller gave a
\* value for, else 10
FallbackRounds(o) ==
  IF o.given /\ o.rounds.kind = "number" THEN o.rounds ELSE Num(10)

\* C4: with strict: false convert never raises, and on an input that fails
\* validation returns success=false, hash='', rounds = options.rounds if
\* supplied else 10, error='Invalid PHP bcrypt hash format'.
C4_NonStrictFailureOutcome ==
  (op = "convert" /\ NonStrictAsked(options)) =>
    /\ result.kind = "return"
    /\ ~WellFormed(phpHash) =>
         /\ ~result.success
         /\ result.hash = <<>>
         /\ result.rounds = FallbackRounds(options)
         /\ result.hasError
         /\ result.error = "Invalid PHP bcrypt hash format"

\* C5: an outcome convert returns has, when success is true, a hash of the
\* Hash Tag grammar whose two-digit rounds field is the outcome's rounds and
\* no error; when success is false, the empty hash and a non-empty error.
C5_OutcomeInvariant ==
  (op = "convert" /\ result.kind = "return") =>
    /\ result.success =>
         /\ WellFormedText(result.hash)
         /\ result.rounds = Num(FieldValue(result.hash))
         /\ ~result.hasError
    /\ ~result.success =>
         /\ result.hash = <<>>
         /\ result.hasError
         /\ result.error # ""

C5_Witness ==
  /\ op = "convert"
  /\ result.kind = "return" /\ ~result.success
  /\ result.hasError
  /\ phpHash.type = "string" /\ Len(phpHash.str) = 60

\* the same choice of strict in two options arguments
SameStrict(o1, o2) == mergeOptions(o1).strict = mergeOptions(o2).strict

\* C6: on a valid hash the result of convert is the same for every value of
\* options.rounds (strict held equal), and its rounds are those of the hash.
C6_RoundsOptionIgnoredOnSuccess ==
  (op = "convert" /\ WellFormed(phpHash)) =>
    /\ result.kind = "return" /\ result.success
    /\ result.rounds = Num(FieldValue(phpHash.str))
    /\ \A o \in OptionsInputs :
         SameStrict(o, options) => convert(phpHash, o) = result

C6_Witness ==
  /\ op = "convert"
  /\ WellFormed(phpHash) /\ FieldValue(phpHash.str) = 10
  /\ options.given /\ options.rounds = [kind |-> "number", v |-> 12]
  /\ result.kind = "return" /\ result.success

\* C7: for a well-formed hash with rounds r in 4..31, convert reports rounds r
\* and a hash with the same two-character rounds field: parsing the field in
\* base 10 and writing it back with two-digit zero padding gives the field.
C7_RoundsFieldRoundTrip ==
  (op = "convert" /\ WellFormed(phpHash)) =>
    LET field == SubSeq(phpHash.str, 5, 6)
    IN /\ result.kind = "return" /\ result.success
       /\ result.rounds = Num(FieldValue(phpHash.str))
       /\ SubSeq(result.hash, 5, 6) = field
       /\ padStart(toString(parseInt(Str(field)))) = field

C7_Witness ==
  /\ op = "convert"
  /\ WellFormed(phpHash) /\ SubSeq(phpHash.str, 5, 6) = <<"0", "4">>
  /\ result.kind = "return" /\ result.success
  /\ result.rounds = Num(4)

\* C8: the hash convert returns for a valid hash is accepted by convert, which
\* returns it unchanged, with the same rounds and success=true.
C8_ConvertIdempotent ==
  fed =>
    /\ result.kind = "return"
    /\ result.success
    /\ result.hash = prior.result.hash
    /\ result.rounds = prior.result.rounds

C8_Witness ==
  /\ fed
  /\ prior.input.str[3] = "y"
  /\ result.kind = "return" /\ result.success
  /\ result.hash[3] = "b"

\* C9: getRounds never raises, null and undefined included: it returns the
\* value of the two-digit rounds field of an input that starts with
\* $2[aby]$DD$, and 10 for every other input.
C9_GetRoundsNeverFails ==
  op = "getRounds" =>
    /\ result.kind = "return"
    /\ result.rounds =
         Num(IF phpHash.type = "string" /\ HasRoundsField(phpHash.str)
             THEN FieldValue(phpHash.str) ELSE 10)

\* a string without the rounds field of a bcrypt hash at its start
NotBcryptText(hash) == hash.type = "string" /\ ~HasRoundsField(hash.str)

StrictUnset(o) == ~o.given \/ o.strict.kind \in {"absent", "undefined"}

\* the caller gave rounds no value
RoundsUnset(o) == ~o.given \/ o.rounds.kind \in {"absent", "undefined"}

\* C11: convert uses the defaults {rounds: 10, strict: true} overridden only
\* by the fields the caller gives a value for: with strict unset (no options,
\* key omitted, key undefined) an invalid input raises, and with rounds unset
\* a non-strict failure outcome reports rounds 10.
C11_DefaultsFillUnsetFields ==
  (op = "convert" /\ ~WellFormed(phpHash)) =>
    /\ StrictUnset(options) => result.kind = "throw"
    /\ (NonStrictAsked(options) /\ RoundsUnset(options)) =>
         /\ result.kind = "return"
         /\ result.rounds = Num(10)

\* C13: convert succeeds exactly when isValidHash accepts the input; the try
\* block never ends with 'Invalid rounds value in hash', it throws nothing but
\* an InvalidHashError, and only in strict mode, so the catch block only
\* rethrows; the one failure message is 'Invalid PHP bcrypt hash format'.
C13_SecondCheckUnreachable ==
  op = "convert" =>
    LET merged == mergeOptions(options)
        ended == tryBlock(phpHash, merged)
    IN /\ (result.kind = "return" /\ result.success) = isValidHash(phpHash).bool
       /\ ended.error # "Invalid rounds value in hash"
       /\ ended.kind = "throw" =>
            /\ ended.name = "InvalidHashError"
            /\ Truthy(merged.strict)
            /\ result = ended
       /\ ~(result.kind = "return" /\ result.success) =>
            result.error = "Invalid PHP bcrypt hash format"

C13_Witness ==
  /\ op = "convert"
  /\ phpHash.type = "string" /\ TestAnchored(phpHash.str, phpBcryptPattern)
  /\ SubSeq(phpHash.str, 5, 6) = <<"0", "3">>
  /\ result.kind = "return" /\ ~result.success
  /\ result.error = "Invalid PHP bcrypt hash format"

\* C12: whatever calls were made on an instance, its default options are
\* still {rounds: 10, strict: true}, the arguments of the call are as the
\* caller passed them, and a call with the arguments of the instance's first
\* call ends as that first call did.
C12_Stateless ==
  /\ defaultOptions = DefaultOptions
  /\ op # "none" => phpHash \in CallInputs /\ options \in OptionsInputs
  /\ (op = first.op /\ phpHash = first.input /\ options = first.options) =>
       result = first.result

\* a call without options raises on an invalid input although the first call
\* of the instance was a non-strict one
C12_Witness ==
  /\ first.op = "convert" /\ NonStrictAsked(first.options)
  /\ first.result.kind = "return"
  /\ op = "convert" /\ options = NoOptions
  /\ phpHash = Str(<<"i","n","v","a","l","i","d">>)
  /\ result.kind = "throw"

=============================================================================
